---- MODULE Spec2Model ----
(***************************************************************************)
(* The HTML summarisation pipeline of src/main.py: the __main__ block, the *)
(* configuration loader, and main()'s per-file loop                        *)
(* (exists-check, extract_text, analyze_text, save_to_json).               *)
(*                                                                         *)
(* A run is one execution of the script.  Runs share the configuration,    *)
(* the input directory and the output directory (the filesystem); all the  *)
(* rest is private to a run.  Spec has one run; ConcSpec has two           *)
(* independent runs started against the same directories.                  *)
(***************************************************************************)
EXTENDS Integers, Sequences, FiniteSets, TLC

\* ---------------------------------------------------------------- bounds
NumFiles == 2        \* stems that may exist as <stem>.html / <stem>_summary.json
MaxSummaryLen == 3   \* longest text the remote call returns
MaxM == 2            \* largest summary.max_length the configuration file sets
                     \* (a length: 0..MaxM, or the key left out)
MaxTokens == 1       \* largest total_tokens the remote call reports

\* ------------------------------------------------------ program constants
DefaultMaxLength == 500   \* config.get("summary", {}).get("max_length", 500)

Runs == {1, 2}
Stems == 1..NumFiles
ConcStems == {1}     \* two runs race on one document: one is enough
Terminal == {"written", "skipped", "failed"}

VARIABLES
    config_exists,  \* os.path.exists(config_path)
    config_yaml,    \* what yaml.safe_load gives: the keys main() reads
    env_set,        \* os.getenv(VAR) is a non-empty string
    input_dir,      \* stems s with <s>.html in the input directory
    outputs,        \* stem -> content of <stem>_summary.json
    before,         \* outputs as they were when the runs started
    pc,             \* run -> position in the script
    exit_code,      \* run -> -1 while running, else the process exit status
    max_length,     \* run -> analyzer.max_length
    html_files,     \* run -> list(input_dir.glob("*.html"))
    idx,            \* run -> index of html_path in html_files
    status,         \* run -> stem -> stage the file has reached
    analysis_result,\* run -> what analyze_text returned for html_path
    response,       \* run -> stem -> the text the remote call returned
    extracts,       \* run -> stem -> number of extract_text calls
    calls,          \* run -> stem -> number of chain.invoke calls
    opens,          \* run -> stem -> number of open(output_path, "w")
    log             \* run -> the records the run logged, in order

vars == <<config_exists, config_yaml, env_set, input_dir, outputs, before, pc,
          exit_code, max_length, html_files, idx, status, analysis_result,
          response, extracts, calls, opens, log>>

shared == <<config_exists, config_yaml, env_set, input_dir, before>>

\* ---------------------------------------------------------------- values
\* File contents of <stem>_summary.json.
Absent == [kind |-> "absent"]
Old == [kind |-> "old"]          \* written by something before the runs
Partial == [kind |-> "partial"]  \* opened with "w", json.dump did not finish
Exists(content) == content.kind # "absent"

\* A text is a sequence of characters; the k-th character of a returned
\* text is k, so that a prefix differs from every other part of the text.
Text(n) == [k \in 1..n |-> k]
Summaries == {Text(n) : n \in 0..MaxSummaryLen}
NoResult == [summary |-> <<>>, used_tokens |-> 0]
NoResponse == <<0>>

\* Python's s[:m]: a negative m counts from the end.
PySlice(s, m) ==
    IF m >= 0
    THEN SubSeq(s, 1, IF m < Len(s) THEN m ELSE Len(s))
    ELSE SubSeq(s, 1, IF Len(s) + m > 0 THEN Len(s) + m ELSE 0)

\* The permutations of a finite set, as sequences: the orders glob may give.
Orders(S) ==
    {q \in [1..Cardinality(S) -> S] : \A i, j \in 1..Cardinality(S) : q[i] = q[j] => i = j}

Entry(level, msg, file) == [level |-> level, msg |-> msg, file |-> file]

\* ---------------------------------------------------------- configuration
\* The placeholder "${VAR}" as a value of xai.api_key.
Configs ==
    [directories : BOOLEAN,
     api_key : {"absent", "literal", "placeholder"},
     summary_max_length : {<<>>} \cup {<<m>> : m \in 0..MaxM}]

\* The variant of config/config_loader.py (`os.getenv(env_var) or config`),
\* which main.py does not import: an unset variable leaves the placeholder.
resolve_env_variables_lenient(value, env) ==
    [ok |-> TRUE, value |-> IF value = "placeholder" /\ env THEN "literal" ELSE value]

\* Config.resolve_env_variables of main.py on one string value.
resolve_env_variables(value, env) ==
    IF value = "placeholder"
    THEN IF ~env
         THEN [ok |-> FALSE, value |-> "EnvironmentError"]
         ELSE [ok |-> TRUE, value |-> "literal"]
    ELSE [ok |-> TRUE, value |-> value]

\* Config.load_config / load_configuration.
load_configuration ==
    IF ~config_exists
    THEN [ok |-> FALSE, error |-> "FileNotFoundError", config |-> config_yaml]
    ELSE LET r == resolve_env_variables(config_yaml.api_key, env_set)
         IN IF ~r.ok
            THEN [ok |-> FALSE, error |-> r.value, config |-> config_yaml]
            ELSE [ok |-> TRUE, error |-> "none",
                  config |-> [config_yaml EXCEPT !.api_key = r.value]]

\* -------------------------------------------------------------- initial
RunInit(active) ==
    /\ pc = [r \in Runs |-> IF r \in active THEN "start" ELSE "off"]
    /\ exit_code = [r \in Runs |-> -1]
    /\ max_length = [r \in Runs |-> 0]
    /\ html_files = [r \in Runs |-> <<>>]
    /\ idx = [r \in Runs |-> 0]
    /\ status = [r \in Runs |-> [s \in Stems |-> "pending"]]
    /\ analysis_result = [r \in Runs |-> NoResult]
    /\ response = [r \in Runs |-> [s \in Stems |-> NoResponse]]
    /\ extracts = [r \in Runs |-> [s \in Stems |-> 0]]
    /\ calls = [r \in Runs |-> [s \in Stems |-> 0]]
    /\ opens = [r \in Runs |-> [s \in Stems |-> 0]]
    /\ log = [r \in Runs |-> <<>>]

EnvInit(stems) ==
    /\ config_exists \in BOOLEAN
    /\ config_yaml \in Configs
    /\ env_set \in BOOLEAN
    \* what no line of the program reads is not enumerated
    /\ ~config_exists => config_yaml = [directories |-> TRUE, api_key |-> "literal", summary_max_length |-> <<>>]
    /\ ~env_set => config_exists /\ config_yaml.api_key = "placeholder"
    /\ input_dir \in SUBSET stems
    /\ outputs \in [Stems -> {Absent, Old}]
    /\ \A s \in Stems : s \notin stems => outputs[s] = Absent
    /\ before = outputs

Init == EnvInit(Stems) /\ RunInit({1})

ConcInit == EnvInit(ConcStems) /\ RunInit({1, 2})

\* ------------------------------------------------------------- helpers
html_path(r) == html_files[r][idx[r]]

Logged(r, entries) == log' = [log EXCEPT ![r] = @ \o entries]

\* exit(1) of the __main__ block.
Exit1(r, entries) ==
    /\ pc' = [pc EXCEPT ![r] = "exited"]
    /\ exit_code' = [exit_code EXCEPT ![r] = 1]
    /\ Logged(r, entries)

\* A bug: `return` where the loop has `continue`.
NextFile_return(r, entries) ==
    /\ pc' = [pc EXCEPT ![r] = "done"]
    /\ exit_code' = [exit_code EXCEPT ![r] = 0]
    /\ Logged(r, entries)
    /\ UNCHANGED idx

\* `continue`, or the end of the for loop: the next html_path, or the last
\* line of main() and the normal end of the process.
NextFile(r, entries) ==
    IF idx[r] < Len(html_files[r])
    THEN /\ idx' = [idx EXCEPT ![r] = @ + 1]
         /\ pc' = [pc EXCEPT ![r] = "check"]
         /\ Logged(r, entries)
         /\ UNCHANGED exit_code
    ELSE /\ pc' = [pc EXCEPT ![r] = "done"]
         /\ exit_code' = [exit_code EXCEPT ![r] = 0]
         /\ Logged(r, entries \o <<Entry("INFO", "Application processing completed", 0)>>)
         /\ UNCHANGED idx

\* `for html_path in html_files`: the first html_path, or no iteration at all.
ForLoop(r, files, entries) ==
    IF files # <<>>
    THEN /\ idx' = [idx EXCEPT ![r] = 1]
         /\ pc' = [pc EXCEPT ![r] = "check"]
         /\ Logged(r, entries)
         /\ UNCHANGED exit_code
    ELSE /\ pc' = [pc EXCEPT ![r] = "done"]
         /\ exit_code' = [exit_code EXCEPT ![r] = 0]
         /\ Logged(r, entries \o <<Entry("INFO", "Application processing completed", 0)>>)
         /\ UNCHANGED idx

\* A bug: the test for an empty listing left out.
no_html_files_unchecked(files) == FALSE

\* `if not html_files`
no_html_files(files) == files = <<>>

\* A bug: the destination looked up under html_path.name, not html_path.stem:
\* "<stem>.html_summary.json" is never there.
output_exists_by_name(f) == FALSE

\* output_json_path.exists() for output_dir / "<stem>_summary.json"
output_exists(f) == Exists(outputs[f])

\* A bug: the exception of one file leaves the loop and ends the run.
OnException_abort(r, f, entries) ==
    /\ status' = [status EXCEPT ![r][f] = "failed"]
    /\ idx' = idx
    /\ Exit1(r, entries \o <<Entry("CRITICAL", "A critical error occurred", 0)>>)

\* A bug: the failed file is tried again.
OnException_retry(r, f, entries) ==
    /\ status' = [status EXCEPT ![r][f] = "failed"]
    /\ pc' = [pc EXCEPT ![r] = "check"]
    /\ Logged(r, entries \o <<Entry("ERROR", "Failed to process HTML", f)>>)
    /\ UNCHANGED <<idx, exit_code>>

\* `except Exception` of the loop body: log, then `continue`.
OnException(r, f, entries) ==
    /\ status' = [status EXCEPT ![r][f] = "failed"]
    /\ NextFile(r, entries \o <<Entry("ERROR", "Failed to process HTML", f)>>)

\* ------------------------------------------------------------- actions
\* __main__: load_dotenv, load_configuration, setup_logging.
LoadInitialConfig(r) ==
    /\ pc[r] = "start"
    /\ IF ~load_configuration.ok
       THEN Exit1(r, <<Entry("PRINT", "Failed to load configuration", 0)>>)
       ELSE /\ pc' = [pc EXCEPT ![r] = "main"]
            /\ UNCHANGED <<exit_code, log>>
    /\ UNCHANGED <<shared, outputs, max_length, html_files, idx, status,
                   analysis_result, response, extracts, calls, opens>>

\* main() up to the for loop: configuration, directories, client, glob.
Main(r) ==
    /\ pc[r] = "main"
    /\ LET cfg == load_configuration
           start == <<Entry("INFO", "Starting the application", 0)>>
           critical == <<Entry("CRITICAL", "A critical error occurred", 0)>>
           dirs == <<Entry("INFO", "Input directory", 0), Entry("INFO", "Output directory", 0)>>
       IN IF ~cfg.ok
          THEN Exit1(r, start \o critical) /\ UNCHANGED <<max_length, html_files, idx>>
          ELSE IF ~cfg.config.directories
          THEN Exit1(r, start \o critical) /\ UNCHANGED <<max_length, html_files, idx>>
          ELSE IF cfg.config.api_key = "absent"
          THEN Exit1(r, start \o dirs \o critical) /\ UNCHANGED <<max_length, html_files, idx>>
          ELSE /\ max_length' =
                    [max_length EXCEPT ![r] =
                        IF cfg.config.summary_max_length = <<>>
                        THEN DefaultMaxLength
                        ELSE cfg.config.summary_max_length[1]]
               /\ \E files \in Orders(input_dir) :
                    /\ html_files' = [html_files EXCEPT ![r] = files]
                    /\ IF no_html_files(files)
                       THEN /\ pc' = [pc EXCEPT ![r] = "done"]
                            /\ exit_code' = [exit_code EXCEPT ![r] = 0]
                            /\ Logged(r, start \o dirs \o <<Entry("WARNING", "No HTML files found", 0)>>)
                            /\ UNCHANGED idx
                       ELSE ForLoop(r, files, start \o dirs)
    /\ UNCHANGED <<shared, outputs, status, analysis_result, response, extracts, calls, opens>>

\* output_json_path.exists(): skip, or go on to process html_path.
CheckExists(r) ==
    /\ pc[r] = "check"
    /\ LET f == html_path(r)
       IN IF output_exists(f)
          THEN /\ status' = [status EXCEPT ![r][f] = "skipped"]
               /\ NextFile(r, <<Entry("INFO", "Skipping", f)>>)
          ELSE /\ pc' = [pc EXCEPT ![r] = "extract"]
               /\ Logged(r, <<Entry("INFO", "Processing HTML", f)>>)
               /\ UNCHANGED <<status, idx, exit_code>>
    /\ UNCHANGED <<shared, outputs, max_length, html_files, analysis_result,
                   response, extracts, calls, opens>>

\* HTMLExtractor.extract_text: the text, or the exception re-raised.
ExtractText(r) ==
    /\ pc[r] = "extract"
    /\ LET f == html_path(r)
           begin == <<Entry("INFO", "Extracting text from HTML file", f)>>
       IN /\ extracts' = [extracts EXCEPT ![r][f] = @ + 1]
          /\ \E readable \in BOOLEAN :
               IF readable
               THEN /\ status' = [status EXCEPT ![r][f] = "extracted"]
                    /\ pc' = [pc EXCEPT ![r] = "analyze"]
                    /\ Logged(r, begin \o <<Entry("INFO", "Completed text extraction", f)>>)
                    /\ UNCHANGED <<idx, exit_code>>
               ELSE OnException(r, f, begin \o <<Entry("ERROR", "Error occurred while extracting text", f)>>)
    /\ UNCHANGED <<shared, outputs, max_length, html_files, analysis_result,
                   response, calls, opens>>

\* The variant of analyzers/html_analyzer.py: slices always, warns never.
SummaryOf_nowarn(content, tokens, m) ==
    [summary |-> PySlice(content, m), used_tokens |-> tokens, warned |-> FALSE]

\* A bug: the length test off by one.
SummaryOf_geq(content, tokens, m) ==
    [summary |-> IF Len(content) >= m THEN PySlice(content, m) ELSE content,
     used_tokens |-> tokens,
     warned |-> Len(content) >= m]

\* analyze_text after the remote call returned: the hard cut and its warning.
SummaryOf(content, tokens, m) ==
    [summary |-> IF Len(content) > m THEN PySlice(content, m) ELSE content,
     used_tokens |-> tokens,
     warned |-> Len(content) > m]

\* HTMLAnalyzer.analyze_text: one chain.invoke, then the truncation.
AnalyzeText(r) ==
    /\ pc[r] = "analyze"
    /\ LET f == html_path(r)
           begin == <<Entry("INFO", "Analyzing text", f)>>
       IN /\ calls' = [calls EXCEPT ![r][f] = @ + 1]
          /\ \E raised \in BOOLEAN :
               IF raised
               THEN /\ OnException(r, f, begin \o <<Entry("ERROR", "Error occurred during text analysis", f)>>)
                    /\ UNCHANGED <<analysis_result, response>>
               ELSE \E content \in Summaries, tokens \in 1..MaxTokens :
                      LET res == SummaryOf(content, tokens, max_length[r])
                      IN /\ response' = [response EXCEPT ![r][f] = content]
                         /\ analysis_result' =
                                [analysis_result EXCEPT ![r] =
                                    [summary |-> res.summary, used_tokens |-> res.used_tokens]]
                         /\ status' = [status EXCEPT ![r][f] = "summarized"]
                         /\ pc' = [pc EXCEPT ![r] = "save"]
                         /\ Logged(r, begin
                                \o <<Entry("INFO", "Text analysis completed", f),
                                     Entry("INFO", "Tokens used", f)>>
                                \o (IF res.warned
                                    THEN <<Entry("WARNING", "Summary exceeded the maximum length and was truncated", f)>>
                                    ELSE <<>>))
                         /\ UNCHANGED <<idx, exit_code>>
    /\ UNCHANGED <<shared, outputs, max_length, html_files, extracts, opens>>

\* The record main() builds from analysis_result.
Record(r, f) ==
    [kind |-> "record",
     input_html |-> f,
     prompt |-> max_length[r],
     summary |-> analysis_result[r].summary,
     used_tokens |-> analysis_result[r].used_tokens]

\* A bug that would hide the race: the destination tested again before the write.
SaveToJson_recheck(r) ==
    /\ pc[r] = "save"
    /\ LET f == html_path(r)
           begin == <<Entry("INFO", "Saving analysis results to JSON file", f)>>
           error == <<Entry("ERROR", "Error occurred while saving JSON file", f)>>
       IN \E outcome \in {"open raises", "dump raises", "saved"} :
            IF output_exists(f)
            THEN /\ status' = [status EXCEPT ![r][f] = "skipped"]
                 /\ NextFile(r, <<Entry("INFO", "Skipping", f)>>)
                 /\ UNCHANGED <<outputs, opens>>
            ELSE IF outcome = "open raises"
            THEN /\ OnException(r, f, begin \o error)
                 /\ UNCHANGED <<outputs, opens>>
            ELSE IF outcome = "dump raises"
            THEN /\ opens' = [opens EXCEPT ![r][f] = @ + 1]
                 /\ outputs' = [outputs EXCEPT ![f] = Partial]
                 /\ OnException(r, f, begin \o error)
            ELSE /\ opens' = [opens EXCEPT ![r][f] = @ + 1]
                 /\ outputs' = [outputs EXCEPT ![f] = Record(r, f)]
                 /\ status' = [status EXCEPT ![r][f] = "written"]
                 /\ NextFile(r, begin
                        \o <<Entry("INFO", "Successfully saved JSON file", f),
                             Entry("INFO", "Successfully processed and saved", f)>>)
    /\ UNCHANGED <<shared, max_length, html_files, analysis_result, response,
                   extracts, calls>>

\* HTMLAnalyzer.save_to_json: open(output_path, "w"), json.dump, close.
\* The open may raise (nothing is touched); json.dump or the close may raise
\* after the open created or emptied the file.
SaveToJson(r) ==
    /\ pc[r] = "save"
    /\ LET f == html_path(r)
           begin == <<Entry("INFO", "Saving analysis results to JSON file", f)>>
           error == <<Entry("ERROR", "Error occurred while saving JSON file", f)>>
       IN \E outcome \in {"open raises", "dump raises", "saved"} :
            IF outcome = "open raises"
            THEN /\ OnException(r, f, begin \o error)
                 /\ UNCHANGED <<outputs, opens>>
            ELSE IF outcome = "dump raises"
            THEN /\ opens' = [opens EXCEPT ![r][f] = @ + 1]
                 /\ outputs' = [outputs EXCEPT ![f] = Partial]
                 /\ OnException(r, f, begin \o error)
            ELSE /\ opens' = [opens EXCEPT ![r][f] = @ + 1]
                 /\ outputs' = [outputs EXCEPT ![f] = Record(r, f)]
                 /\ status' = [status EXCEPT ![r][f] = "written"]
                 /\ NextFile(r, begin
                        \o <<Entry("INFO", "Successfully saved JSON file", f),
                             Entry("INFO", "Successfully processed and saved", f)>>)
    /\ UNCHANGED <<shared, max_length, html_files, analysis_result, response,
                   extracts, calls>>

Next ==
    \/ \E r \in Runs : LoadInitialConfig(r)
    \/ \E r \in Runs : Main(r)
    \/ \E r \in Runs : CheckExists(r)
    \/ \E r \in Runs : ExtractText(r)
    \/ \E r \in Runs : AnalyzeText(r)
    \/ \E r \in Runs : SaveToJson(r)

Spec == Init /\ [][Next]_vars

FairSpec == Init /\ [][Next]_vars /\ WF_vars(Next)

ConcSpec == ConcInit /\ [][Next]_vars

\* ============================================================== claims
Active == {r \in Runs : pc[r] # "off"}
Enumerated(r) == {html_files[r][i] : i \in DOMAIN html_files[r]}
HasLogged(r, level, msg, f) == \E i \in DOMAIN log[r] : log[r][i] = Entry(level, msg, f)
FailedAtRemote(r, f) == HasLogged(r, "ERROR", "Error occurred during text analysis", f)
TruncationWarned(r, f) ==
    HasLogged(r, "WARNING", "Summary exceeded the maximum length and was truncated", f)
ConfigError ==
    \/ ~config_exists
    \/ ~config_yaml.directories
    \/ config_yaml.api_key = "absent"
    \/ config_yaml.api_key = "placeholder" /\ ~env_set

\* C1: an output file that exists before the run is left as it was, is never
\* opened for writing, and its input file is neither extracted nor sent to
\* the remote call, whatever happens to the other files of the run.
C1_ExistingOutputUntouched ==
    \A s \in Stems :
        before[s].kind # "absent" =>
            /\ outputs[s] = before[s]
            /\ \A r \in Active :
                 opens[r][s] = 0 /\ extracts[r][s] = 0 /\ calls[r][s] = 0

C1_Witness ==
    /\ pc[1] = "done"
    /\ \E s, t \in Enumerated(1) :
         /\ before[s].kind # "absent" /\ status[1][s] = "skipped"
         /\ status[1][t] = "failed"

\* C2: a failed file never ends the run; when the run is over, every file
\* enumerated after a failed one, with no output before the run and no
\* failure of its own, has its output file, and a file that failed at the
\* remote call has none.
C2_FailureDoesNotAbortBatch ==
    \A r \in Active :
        \A i \in DOMAIN html_files[r] :
            LET A == html_files[r][i]
            IN status[r][A] = "failed" =>
                 /\ pc[r] # "exited"
                 /\ pc[r] = "done" =>
                      /\ FailedAtRemote(r, A) => outputs[A].kind = "absent"
                      /\ \A j \in DOMAIN html_files[r] :
                           LET B == html_files[r][j]
                           IN (i < j /\ before[B].kind = "absent" /\ status[r][B] # "failed")
                                 => status[r][B] = "written" /\ outputs[B].kind = "record"

C2_Witness ==
    /\ pc[1] = "done"
    /\ Len(html_files[1]) = 2
    /\ FailedAtRemote(1, html_files[1][1])
    /\ outputs[html_files[1][1]].kind = "absent"
    /\ status[1][html_files[1][2]] = "written"

\* C3: a returned summary longer than max_length is persisted as its first
\* max_length characters, of length exactly max_length, and the truncation
\* warning is logged.
C3_LongSummaryTruncated ==
    \A r \in Active : \A s \in Stems :
        (status[r][s] = "written" /\ Len(response[r][s]) > max_length[r]) =>
            /\ outputs[s].kind = "record"
            /\ Len(outputs[s].summary) = max_length[r]
            /\ outputs[s].summary = SubSeq(response[r][s], 1, max_length[r])
            /\ TruncationWarned(r, s)

C3_Witness ==
    \E s \in Stems :
        /\ status[1][s] = "written"
        /\ max_length[1] > 0
        /\ Len(response[1][s]) > max_length[1]

\* C4: a returned summary no longer than max_length is persisted unmodified,
\* and no truncation warning is logged for it.
C4_ShortSummaryKept ==
    \A r \in Active : \A s \in Stems :
        (status[r][s] = "written" /\ Len(response[r][s]) <= max_length[r]) =>
            /\ outputs[s].kind = "record"
            /\ outputs[s].summary = response[r][s]
            /\ ~TruncationWarned(r, s)

C4_Witness ==
    \E s \in Stems :
        /\ status[1][s] = "written"
        /\ Len(response[1][s]) = max_length[1]
        /\ Len(response[1][s]) > 0

\* C5: with the configuration file missing, a required key missing, or a
\* placeholder whose environment variable is unset, the run never gets to
\* list the input files, never extracts, calls the remote service or opens
\* an output file, and it ends only by the failure exit.
C5_ConfigErrorIsFatal ==
    ConfigError =>
        \A r \in Active :
            /\ pc[r] \in {"start", "main", "exited"}
            /\ exit_code[r] \in {-1, 1}
            /\ pc[r] = "exited" => exit_code[r] = 1
            /\ html_files[r] = <<>>
            /\ outputs = before
            /\ \A s \in Stems :
                 extracts[r][s] = 0 /\ calls[r][s] = 0 /\ opens[r][s] = 0

C5_Witness ==
    /\ config_exists
    /\ config_yaml.directories
    /\ config_yaml.api_key = "placeholder"
    /\ ~env_set
    /\ input_dir # {}
    /\ pc[1] = "exited"
    /\ exit_code[1] = 1

\* C6: a file's stage moves only along pending -> extracted -> summarized ->
\* written, to skipped only from pending, to failed only from a stage that is
\* not terminal; a file leaves pending only when the file before it in the
\* listing is in a terminal stage; and every run ends, with every file it
\* listed in a terminal stage.
StageMoves ==
    {<<"pending", "extracted">>, <<"extracted", "summarized">>,
     <<"summarized", "written">>, <<"pending", "skipped">>,
     <<"pending", "failed">>, <<"extracted", "failed">>, <<"summarized", "failed">>}

StageStep ==
    \A r \in Runs : \A s \in Stems :
        status'[r][s] # status[r][s] => <<status[r][s], status'[r][s]>> \in StageMoves

OneAtATime ==
    \A r \in Active : \A i \in DOMAIN html_files[r] :
        (i > 1 /\ status[r][html_files[r][i]] # "pending")
            => status[r][html_files[r][i - 1]] \in Terminal

Ended(r) == pc[r] \in {"done", "exited"}

AllTerminal ==
    \A r \in Active :
        pc[r] = "done" => \A s \in Enumerated(r) : status[r][s] \in Terminal

C6_FileStateMachine ==
    /\ [][StageStep]_vars
    /\ [](OneAtATime /\ AllTerminal)
    /\ <>(\A r \in Active : Ended(r))

C6_Witness ==
    /\ pc[1] = "done"
    /\ Len(html_files[1]) = 2
    /\ status[1][html_files[1][1]] = "failed"
    /\ status[1][html_files[1][2]] = "written"

\* C7: a run calls the remote service at most once for a file, only after
\* that file's extraction succeeded, and takes no stage of a file twice: a
\* failed file is not tried again.
C7_SingleAttempt ==
    \A r \in Active : \A s \in Stems :
        /\ calls[r][s] <= 1
        /\ extracts[r][s] <= 1
        /\ opens[r][s] <= 1
        /\ calls[r][s] = 1 =>
             /\ extracts[r][s] = 1
             /\ HasLogged(r, "INFO", "Completed text extraction", s)

C7_Witness ==
    /\ pc[1] = "done"
    /\ \E s \in Stems : FailedAtRemote(1, s) /\ calls[1][s] = 1 /\ status[1][s] = "failed"

\* C8: with a usable configuration and no *.html file, the run never takes
\* the failure exit, calls the remote service for nothing, writes nothing,
\* and ends normally having logged that no HTML files were found.
C8_EmptyInputDirectory ==
    (input_dir = {} /\ ~ConfigError) =>
        \A r \in Active :
            /\ pc[r] \in {"start", "main", "done"}
            /\ outputs = before
            /\ \A s \in Stems : calls[r][s] = 0 /\ opens[r][s] = 0
            /\ pc[r] = "done" =>
                 /\ exit_code[r] = 0
                 /\ HasLogged(r, "WARNING", "No HTML files found", 0)

C8_Witness ==
    /\ input_dir = {}
    /\ pc[1] = "done"
    /\ exit_code[1] = 0
    /\ \E s \in Stems : outputs[s].kind = "old"

\* C9: once a run has passed the destination-exists test for a file it never
\* skips that file: the test is not made again before the write; and two
\* runs can both call the remote service for one file and both write its
\* output, the later write replacing the earlier.
C9_CheckedOnceNoLock ==
    [][\A r \in Runs :
          pc[r] \in {"extract", "analyze", "save"}
              => status'[r][html_path(r)] # "skipped"]_vars

C9_Witness ==
    /\ calls[1][1] = 1 /\ calls[2][1] = 1
    /\ opens[1][1] = 1 /\ opens[2][1] = 1
    /\ status[1][1] = "written" /\ status[2][1] = "written"
    /\ response[1][1] # response[2][1]
    /\ Len(response[2][1]) <= max_length[2]
    /\ outputs[1].kind = "record"
    /\ outputs[1].summary = response[2][1]

\* C10: when the run is over, every output file either was there before the
\* run or is the complete record of a written file; a failed file has left
\* no output file behind.
C10_NoOutputLeftByFailedFile ==
    pc[1] = "done" =>
        \A s \in Stems :
            /\ outputs[s].kind # "absent" =>
                 \/ outputs[s] = before[s]
                 \/ outputs[s].kind = "record" /\ status[1][s] = "written"
            /\ status[1][s] = "failed" => outputs[s].kind = "absent"
====
